---- MODULE Spec2Model ----
(***************************************************************************)
(* asyncwiki: the search orchestration (WikiSearcher, WikiWebSearcher,     *)
(* WikiDBSearcher, WikiDB) and the value types (WikiQuery, WikiResult,     *)
(* WikiSimpleResult).                                                      *)
(*                                                                         *)
(* Strings are sequences of atoms.  An atom is a piece of text that no     *)
(* operation of the program cuts: a word ("entropy") or one separator      *)
(* character (" ", "/", ".", ":", "_", "|", "?").  Equality of atom        *)
(* sequences is equality of the strings they spell.                        *)
(***************************************************************************)
EXTENDS Naturals, Sequences, FiniteSets

VARIABLES
    srIn, srOut,        \* WikiResult.simple_results setter: argument, value stored
    wqIn, wqOut,        \* WikiQuery(query, lang, search_params): arguments, object built
    wqAgain,            \* the WikiQuery built from the key of wqOut
    ctor,               \* a constructor call: its arguments and how it ended
    apiIn, apiOut,      \* __api_search_page: the two facet lists and the
                        \* search parameters; what it ends with
    cvIn, cvOut,        \* a cache hit: the page row and the mode; the result built
    has_db,             \* WikiSearcher.__db_searcher is not None
    db_drop_param,      \* WikiDB.__db_drop_param
    db_configured,      \* WikiDB.__db_configured
    params,             \* the WikiSearchParams object the search calls are given
    params0,            \* that object as the caller built it
    pages,              \* rows of the pages table
    queries,            \* rows of the queries table
    next_id,            \* next primary key of each table
    call,               \* per task: the state of its WikiSearcher.search call
    ncalls,             \* search calls started so far
    last_save,          \* the latest save_result call that ran to its end
    raced,              \* an existence check of save_result found no row while
                        \* another call was between that same check and its insert
    tasks               \* the tasks that call search

apiVars == <<apiIn, apiOut>>
cvVars == <<cvIn, cvOut>>
pureVars == <<srIn, srOut, wqIn, wqOut, wqAgain, ctor, apiIn, apiOut, cvIn, cvOut>>
dbVars == <<pages, queries, next_id>>
cfgVars == <<has_db, db_drop_param, params0, tasks>>
searchVars == <<has_db, db_drop_param, db_configured, params, params0,
                pages, queries, next_id, call, ncalls, last_save, raced, tasks>>
vars == <<srIn, srOut, wqIn, wqOut, wqAgain, ctor, apiIn, apiOut, cvIn, cvOut, has_db, db_drop_param, db_configured,
          params, params0, pages, queries, next_id, call, ncalls,
          last_save, raced, tasks>>

\* An optional list: Python's None, or a list.
NoneL == [none |-> TRUE, items |-> <<>>]
SomeL(list) == [none |-> FALSE, items |-> list]

\* ------------------------------------------------------------------ bounds
MaxList == 6            \* longest list handed to the simple_results setter
MaxRaw == 4             \* longest raw query, in atoms
MaxCalls == 2           \* search calls in one run
MaxLabels == 3          \* most dot-separated labels in the host of a link
MaxPages == 7           \* most candidates in one facet of an API search
MaxResults == 2         \* largest number_of_results

\* ------------------------------------------------------------------ strings
\* str.lower() on one atom.
LowerAtom(a) ==
    CASE a = "Entropy" -> "entropy"
      [] a = "ENTROPY" -> "entropy"
      [] a = "Gravity" -> "gravity"
      [] a = "Who"     -> "who"
      [] a = "What"    -> "what"
      [] a = "Law"     -> "law"
      [] OTHER         -> a

\* str.lower()
Lower(s) == [i \in 1..Len(s) |-> LowerAtom(s[i])]

\* Does sep occur in s at position i?
OccursAt(s, sep, i) ==
    /\ i + Len(sep) - 1 <= Len(s)
    /\ SubSeq(s, i, i + Len(sep) - 1) = sep

\* str.find(sep): the first position of sep in s, 0 when there is none
\* (Python's -1; positions are 1-based here).
Find(s, sep) ==
    IF \E i \in 1..Len(s) : OccursAt(s, sep, i)
    THEN CHOOSE i \in 1..Len(s) :
            /\ OccursAt(s, sep, i)
            /\ \A j \in 1..(i - 1) : ~OccursAt(s, sep, j)
    ELSE 0

\* str.split(sep): the pieces of s between the non-overlapping occurrences
\* of sep, scanned from the left; never the empty list.
RECURSIVE Split(_, _)
Split(s, sep) ==
    LET i == Find(s, sep)
    IN  IF i = 0
        THEN <<s>>
        ELSE <<SubSeq(s, 1, i - 1)>> \o Split(SubSeq(s, i + Len(sep), Len(s)), sep)

\* str.replace(a, b) for one-atom a and b
Replace(s, a, b) == [i \in 1..Len(s) |-> IF s[i] = a THEN b ELSE s[i]]

\* sep.join(list) for a list of strings
RECURSIVE Join(_, _)
Join(list, sep) ==
    IF Len(list) = 0 THEN <<>>
    ELSE IF Len(list) = 1 THEN list[1]
    ELSE list[1] \o sep \o Join(Tail(list), sep)

\* list[:n]
Take(list, n) == SubSeq(list, 1, IF Len(list) < n THEN Len(list) ELSE n)

\* the list without its i-th element
RemoveAt(list, i) == SubSeq(list, 1, i - 1) \o SubSeq(list, i + 1, Len(list))

\* all sequences over S of length 0..n
SeqsUpTo(S, n) == UNION {[1..k -> S] : k \in 0..n}

\* ------------------------------------------------------------------ config.py
wiki_summary_len_threshold == 10

\* The words __clean filters.  The Russian entries of the list are spelled
\* in Latin letters here.
query_clean_list ==
    { <<"what">>, <<"where">>, <<"who">>, <<"why">>, <<"when">>, <<"that">>,
      <<"this">>, <<"how">>,
      <<"chto">>, <<"takoe">>, <<"gde">>, <<"kto">>, <<"zachem">>, <<"kuda">>,
      <<"kogda">>, <<"takie">>, <<"takoj">>, <<"takogo">>, <<"kak">>,
      <<"kakoj">>, <<"takaya">> }

\* ------------------------------------------------------------------ types.py: WikiQuery
\* The atoms the regular expression class \w does not match.
NonWordAtoms == {" ", "/", ".", ":", "|", "?"}
IsWordAtom(a) == a \notin NonWordAtoms

\* SpellChecker.split_words(raw_query): the maximal runs of \w characters,
\* in order, with their case kept.  "_" is a \w character.
RECURSIVE SplitWords(_)
SplitWords(s) ==
    IF s = <<>> THEN <<>>
    ELSE IF ~IsWordAtom(s[1]) THEN SplitWords(Tail(s))
    ELSE LET stop == IF \E i \in 1..Len(s) : ~IsWordAtom(s[i])
                     THEN CHOOSE i \in 1..Len(s) :
                            /\ ~IsWordAtom(s[i])
                            /\ \A j \in 1..(i - 1) : IsWordAtom(s[j])
                     ELSE Len(s) + 1
         IN  <<SubSeq(s, 1, stop - 1)>> \o SplitWords(SubSeq(s, stop, Len(s)))

\* The languages SpellChecker(language=lang) has a dictionary for, among
\* the languages of the model; for any other it raises ValueError.
SpellLangs == { <<"en">>, <<"ru">> }

\* __link_checker that leaves search_params.db_search alone.
LinkCheckerNoDowngrade(raw_query, lang, search_params) ==
    LET split == Split(raw_query, <<"/", "/">>)
        is_link == /\ split[1] = <<"https", ":">>
                   /\ Len(split) >= 2
                   /\ \E i \in 1..Len(split[2]) : split[2][i] = "wikipedia"
    IN  [ ret |-> IF is_link THEN "True" ELSE "False", exc |-> "none",
          lang |-> lang, search_params |-> search_params ]

\* __link_checker that never takes the language from the host.
LinkCheckerNoOverride(raw_query, lang, search_params) ==
    LET split == Split(raw_query, <<"/", "/">>)
        no(ret, exc) == [ ret |-> ret, exc |-> exc, lang |-> lang,
                          search_params |-> search_params ]
    IN  IF split[1] = <<"https", ":">>
        THEN IF Len(split) < 2 THEN no("None", "IndexError")
             ELSE LET split_query == Split(Split(split[2], <<"/">>)[1], <<".">>)
                      split_len == Len(split_query)
                  IN  IF split_len = 1 THEN no("None", "IndexError")
                      ELSE IF (IF split_len = 2 THEN split_query[1] ELSE split_query[2])
                                = <<"wikipedia">>
                           THEN [ ret  |-> "True",
                                  exc  |-> "none",
                                  lang |-> lang,
                                  search_params |->
                                    IF search_params.db_search_by_url = "no"
                                    THEN [search_params EXCEPT !.db_search = "no"]
                                    ELSE search_params ]
                           ELSE no("None", "none")
        ELSE no("False", "none")

\* WikiQuery.__link_checker: the value returned (True, False, or None when
\* the function falls off its end), the language and the search parameters
\* it leaves behind, and the exception it raises, if any.
LinkChecker(raw_query, lang, search_params) ==
    LET split == Split(raw_query, <<"/", "/">>)
        no(ret, exc) == [ ret |-> ret, exc |-> exc, lang |-> lang,
                          search_params |-> search_params ]
    IN  IF split[1] = <<"https", ":">>
        THEN IF Len(split) < 2 THEN no("None", "IndexError")
             ELSE LET split_query == Split(Split(split[2], <<"/">>)[1], <<".">>)
                      split_len == Len(split_query)
                  IN  IF split_len = 1 THEN no("None", "IndexError")
                      ELSE IF (IF split_len = 2 THEN split_query[1] ELSE split_query[2])
                                = <<"wikipedia">>
                           THEN [ ret  |-> "True",
                                  exc  |-> "none",
                                  lang |-> IF split_len = 3 THEN split_query[1] ELSE lang,
                                  search_params |->
                                    IF search_params.db_search_by_url = "no"
                                    THEN [search_params EXCEPT !.db_search = "no"]
                                    ELSE search_params ]
                           ELSE no("None", "none")
        ELSE no("False", "none")

\* The words_list of __clean: every token, or Ellipsis in the place of a
\* token whose lower-case form is in query_clean_list.
Ellipsis == <<"...">>
WordsList(spell_split) ==
    [ i \in 1..Len(spell_split) |->
        IF Lower(spell_split[i]) \notin query_clean_list
        THEN spell_split[i] ELSE Ellipsis ]

\* __clean without its query_treatment branch: a query that is not a link is
\* returned as it came.
CleanIgnoringTreatment(raw_query, lang, search_params, is_link) ==
    [ exc |-> "none", query |-> raw_query ]

\* WikiQuery.__clean: the key, and the exception raised, if any.
\* "_".join(words_list) raises TypeError when an item is not a str.
Clean(raw_query, lang, search_params, is_link) ==
    IF is_link = "True" THEN [ exc |-> "none", query |-> raw_query ]
    ELSE IF search_params.query_treatment = "without"
    THEN [ exc |-> "none", query |-> Replace(raw_query, " ", "_") ]
    ELSE IF lang \notin SpellLangs THEN [ exc |-> "ValueError", query |-> <<>> ]
    ELSE LET words_list == WordsList(SplitWords(raw_query))
         IN  IF \E i \in 1..Len(words_list) : words_list[i] = Ellipsis
             THEN [ exc |-> "TypeError", query |-> <<>> ]
             ELSE LET result == Join(words_list, <<"_">>)
                  IN  [ exc   |-> "none",
                        query |-> IF result = <<>>
                                  THEN Replace(raw_query, " ", "_")
                                  ELSE result ]

\* WikiQuery(query, lang, search_params): __init__ runs __link_checker, then
\* __clean.  search_params is the caller's object: what __link_checker
\* assigns to it outlives the constructor, also when __clean raises.
WikiQuery(query, lang, search_params) ==
    LET lc == LinkChecker(query, lang, search_params)
        cl == Clean(query, lc.lang, lc.search_params, lc.ret)
    IN  [ exc           |-> IF lc.exc # "none" THEN lc.exc ELSE cl.exc,
          raw_query     |-> query,
          lang          |-> lc.lang,
          search_params |-> lc.search_params,
          is_link       |-> lc.ret,
          query         |-> IF lc.exc # "none" THEN <<>> ELSE cl.query ]

\* WikiSearchParams: the values of each option.
SearchParams ==
    [ mode              : {"fast", "default"},
      priority          : {"title", "content"},
      number_of_results : {1},
      query_treatment   : {"clean", "without"},
      db_search         : {"yes", "no"},
      db_search_by_url  : {"yes", "no"} ]

\* The variables of a WikiQuery before any is built.
NoQuery ==
    [ exc |-> "none", raw_query |-> <<>>, lang |-> <<>>, is_link |-> "None",
      query |-> <<>>,
      search_params |-> [ mode |-> "default", priority |-> "title", number_of_results |-> 1,
                          query_treatment |-> "clean", db_search |-> "yes",
                          db_search_by_url |-> "yes" ] ]

\* ------------------------------------------------------------------ types.py: WikiSimpleResult
wiki_folder == <<"/", "wiki", "/">>

\* WikiSimpleResult(title, raw_link, lang): the raw_link setter cuts the
\* link after the first "/wiki/".
WikiSimpleResult(title, raw_link, lang) ==
    LET wiki == Find(raw_link, wiki_folder)
    IN  [ title    |-> title,
          raw_link |-> IF wiki # 0
                       THEN SubSeq(raw_link, wiki + Len(wiki_folder), Len(raw_link))
                       ELSE raw_link,
          lang     |-> lang ]

\* ------------------------------------------------------------------ types.py: WikiResult
SelfCap == 5            \* simple_results[:5]

\* The for loop of the simple_results setter.  The iterator holds an index
\* into the list it walks, and remove() shortens that same list: after a
\* removal the element that moved into the freed slot is never visited.
\* The entries are distinct objects, so remove(result) removes the entry
\* the loop is standing on.
RECURSIVE RemoveLoop(_, _, _)
RemoveLoop(list, i, title) ==
    IF i > Len(list) THEN list
    ELSE IF Lower(list[i].title) = Lower(title)
         THEN RemoveLoop(RemoveAt(list, i), i + 1, title)
         ELSE RemoveLoop(list, i + 1, title)

\* WikiResult.simple_results = simple_results
SimpleResultsSetter(title, simple_results) ==
    LET filtered == IF ~simple_results.none
                    THEN SomeL(RemoveLoop(simple_results.items, 1, title))
                    ELSE simple_results
    IN  IF ~filtered.none /\ filtered.items # <<>>
        THEN SomeL(Take(filtered.items, SelfCap))
        ELSE NoneL

\* WikiResult(key, title, lang, summary, simple_results)
WikiResult(key, title, lang, summary, simple_results) ==
    [ key            |-> key,
      title          |-> title,
      lang           |-> lang,
      summary        |-> summary,
      simple_results |-> SimpleResultsSetter(title, simple_results) ]

\* ------------------------------------------------------------------ the remote site
\* A fetched page, as WikipediaParser sees it: which of the elements it
\* looks for are there, and what they hold.
Doc(key, title, summary_len, content, first_p, bold, h1, canonical) ==
    [ key |-> key, title |-> title,
      summary |-> [of |-> key, len |-> summary_len],
      content |-> content, first_p |-> first_p, bold |-> bold,
      h1 |-> h1, canonical |-> canonical ]

GoodDoc        == Doc(<<"Entropy">>, <<"Entropy">>, 10, TRUE, TRUE, TRUE, TRUE, TRUE)
LongDoc        == Doc(<<"Entropy">>, <<"Entropy">>, 11, TRUE, TRUE, TRUE, TRUE, TRUE)
ShortDoc       == Doc(<<"Entropy">>, <<"Entropy">>, 9, TRUE, TRUE, TRUE, TRUE, TRUE)
NoContentDoc   == Doc(<<"Entropy">>, <<"Entropy">>, 10, FALSE, TRUE, TRUE, TRUE, TRUE)
NoParagraphDoc == Doc(<<"Entropy">>, <<"Entropy">>, 10, TRUE, FALSE, TRUE, TRUE, TRUE)
NoBoldDoc      == Doc(<<"Entropy">>, <<"Entropy">>, 10, TRUE, TRUE, FALSE, TRUE, TRUE)
NoHeadingDoc   == Doc(<<"Entropy">>, <<"Entropy">>, 10, TRUE, TRUE, TRUE, FALSE, TRUE)
NoCanonicalDoc == Doc(<<"Entropy">>, <<"Entropy">>, 10, TRUE, TRUE, TRUE, TRUE, FALSE)
Docs == { GoodDoc, LongDoc, ShortDoc, NoContentDoc, NoParagraphDoc, NoBoldDoc,
          NoHeadingDoc, NoCanonicalDoc }
NoSummary == [of |-> <<>>, len |-> 0]

\* What session.get(url) ends with: a connection failure (aiohttp raises
\* ClientError), a status other than 200, or status 200 and a body.
ConnFailure == [kind |-> "conn", body |-> <<>>]
BadStatus == [kind |-> "status", body |-> <<>>]
Ok200(body) == [kind |-> "ok", body |-> body]
PageResponses == {ConnFailure, BadStatus} \cup {Ok200(d) : d \in Docs}

\* The candidates a search facet of the API returns under "pages".
Candidate(title, key) == [title |-> title, key |-> key]
FacetPages ==
    { <<>>,
      <<Candidate(<<"Entropy">>, <<"Entropy">>), Candidate(<<"Gravity">>, <<"Gravity">>)>> }
FacetResponses == {ConnFailure, BadStatus} \cup {Ok200(l) : l \in FacetPages}

\* ------------------------------------------------------------------ exc.py
\* The exceptions of the package that derive from WikiScraperExc.
WikiScraperExc ==
    { "WikiResNotReceived", "WikiContentNotFound", "WikiParagraphNotFound",
      "WikiSummaryNotFound", "WikiShortSummary", "WikiNoneSearchResults" }

\* ------------------------------------------------------------------ utils/async_def.py
\* get_response: the exception raised, if any.
GetResponse(response) ==
    IF response.kind = "conn" THEN "ClientError"
    ELSE IF response.kind = "status" THEN "WikiResNotReceived"
    ELSE "none"

\* ------------------------------------------------------------------ parsers/wikipedia_parser.py
\* parse that gives back an empty summary where it finds none to return.
ParseTitleOnly(page, summary_only) ==
    [ exc |-> "none", key |-> page.key, title |-> page.title,
      summary |-> IF /\ page.content /\ page.first_p /\ page.bold
                     /\ page.summary.len >= wiki_summary_len_threshold
                  THEN page.summary ELSE NoSummary ]

\* WikipediaParser.parse(page, summary_only): the exception raised, if any,
\* and the key, title and summary returned.
Parse(page, summary_only) ==
    LET out(exc) == [exc |-> exc, key |-> <<>>, title |-> <<>>, summary |-> NoSummary]
    IN  IF ~page.content THEN out("WikiContentNotFound")
        ELSE IF ~page.first_p THEN out("WikiParagraphNotFound")
        ELSE IF ~page.bold THEN out("AttributeError")
        ELSE IF page.summary.len < wiki_summary_len_threshold THEN out("WikiShortSummary")
        ELSE IF summary_only
             THEN [exc |-> "none", key |-> <<>>, title |-> <<>>, summary |-> page.summary]
        ELSE IF ~page.h1 THEN out("AttributeError")
        ELSE IF ~page.canonical THEN out("TypeError")
        ELSE [exc |-> "none", key |-> page.key, title |-> page.title,
              summary |-> page.summary]

\* ------------------------------------------------------------------ web_searcher/api_searcher.py
OverFetch == 5          \* number_of_results += number_of_results * 5

\* __api_search_page that takes the title facet first whatever the priority.
ApiSearchPageTitleFirst(title_pages, content_pages, sp) ==
    LET chosen == IF title_pages # <<>> THEN title_pages ELSE content_pages
    IN  IF Len(chosen) = 0
        THEN [exc |-> "WikiNoneSearchResults", list |-> <<>>]
        ELSE [exc |-> "none", list |-> chosen]

\* WikiApiWebSearcher.__api_search_page, from the two parsed bodies on: the
\* exception raised, if any, and the (title, key) candidates kept.
ApiSearchPage(title_pages, content_pages, sp) ==
    LET number_of_results == sp.number_of_results + sp.number_of_results * OverFetch
        chosen == IF sp.priority = "content"
                  THEN (IF content_pages # <<>> THEN content_pages ELSE title_pages)
                  ELSE (IF title_pages # <<>> THEN title_pages ELSE content_pages)
    IN  IF Len(chosen) = 0
        THEN [exc |-> "WikiNoneSearchResults", list |-> <<>>]
        ELSE [exc  |-> "none",
              list |-> IF number_of_results \in 1..Len(chosen)
                       THEN SubSeq(chosen, 1, number_of_results)
                       ELSE chosen]

\* WikiApiWebSearcher.__get_links
GetLinks(search_result, lang) ==
    [ i \in 1..Len(search_result) |->
        WikiSimpleResult(search_result[i].title, search_result[i].key, lang) ]

\* ------------------------------------------------------------------ database (orm.py, tables.py)
\* The string a related result is stored as: "title|link".
StoredSimpleResult(simple_result) ==
    simple_result.title \o <<"|">> \o simple_result.raw_link

\* The row add_page(result) inserts.
PageRow(id, result) ==
    [ id |-> id, key |-> result.key, title |-> result.title, lang |-> result.lang,
      summary |-> result.summary,
      simple_results |->
        [ i \in 1..Len(Take(result.simple_results.items, 5)) |->
            StoredSimpleResult(result.simple_results.items[i]) ] ]

\* The row add_query(query, lang, page_id) inserts.
QueryRow(id, query, lang, page_id) ==
    [ id |-> id, query |-> query, lang |-> lang, page_id |-> page_id ]

\* Of several rows a select matches, the one inserted first.
First(rows) == CHOOSE r \in rows : \A o \in rows : r.id <= o.id

\* A select by key that finds no row.
SelectPagesByKeyMissing(key, lang) == {}

\* select_page_by_key(key, lang), select_page_id_by_key(key, lang)
SelectPagesByKey(key, lang) == { r \in pages : r.key = key /\ r.lang = lang }

\* select_page_by_query(query, lang): the page of a query row for the query
\* text and language.
SelectPagesByQuery(query, lang) ==
    { r \in pages : \E q \in queries :
        q.query = query /\ q.lang = lang /\ q.page_id = r.id }

\* select_query_id(query, lang, page_id)
SelectQueries(query, lang, page_id) ==
    { q \in queries : q.query = query /\ q.lang = lang /\ q.page_id = page_id }

\* ------------------------------------------------------------------ searchers/db_searcher.py
\* WikiDBSearcher.__simple_results_converter
\* bool(res) for a stored string: None and "" are falsy.
NonEmpty(res) == res # <<>>

SimpleResultsConverter(page, search_mode) ==
    IF search_mode = "default"
    THEN LET raw_simple_results == SelectSeq(page.simple_results, NonEmpty)
         IN  SomeL([ i \in 1..Len(raw_simple_results) |->
                       LET parts == Split(raw_simple_results[i], <<"|">>)
                       IN  WikiSimpleResult(parts[1], parts[Len(parts)], page.lang) ])
    ELSE NoneL

\* WikiDBSearcher.__search from the page found on: the result it returns.
SearchResult(page, search_mode) ==
    WikiResult(page.key, page.title, page.lang, page.summary,
               SimpleResultsConverter(page, search_mode))

\* __search that looks every query up as a link, by the last path segment.
SearchSelectByKeyOnly(wq) ==
    LET parts == Split(wq.query, <<"/">>)
    IN  SelectPagesByKey(parts[Len(parts)], wq.lang)

\* __search that looks every query up through the query table.
SearchSelectByQueryOnly(wq) == SelectPagesByQuery(wq.query, wq.lang)

\* The rows WikiDBSearcher.__search selects for a query.
SearchSelect(wq) ==
    IF wq.is_link = "True"
    THEN LET parts == Split(wq.query, <<"/">>)
         IN  SelectPagesByKey(parts[Len(parts)], wq.lang)
    ELSE SelectPagesByQuery(wq.query, wq.lang)

\* ------------------------------------------------------------------ constructors
\* An optional connection string: None, or a string (which may be empty).
NoneU == [none |-> TRUE, url |-> ""]
SomeU(url) == [none |-> FALSE, url |-> url]

\* What a constructor call ends with: the exception raised, if any, and
\* whether the object built holds a cache component.
Built(has_cache) == [exc |-> "none", has_cache |-> has_cache]
NotBuilt(exc) == [exc |-> exc, has_cache |-> FALSE]

\* WikiDB.__init__ that builds the object whatever it is given.
NewWikiDBNoCheck(url, engine) == Built(TRUE)

\* WikiDB(url=..., engine=...): ValueError when both are None; otherwise the
\* engine given is used, or create_async_engine(url) makes one, which raises
\* ArgumentError for a string that is no database URL.
NewWikiDB(url, engine) ==
    IF url.none /\ ~engine THEN NotBuilt("ValueError")
    ELSE IF ~engine /\ url.url = "" THEN NotBuilt("ArgumentError")
    ELSE Built(TRUE)

\* WikiDBSearcher(db_url=..., wiki_db=...): ValueError when both are None;
\* otherwise the WikiDB given is used, or WikiDB(url=db_url) is built.
NewWikiDBSearcher(db_url, wiki_db) ==
    IF db_url.none /\ ~wiki_db THEN NotBuilt("ValueError")
    ELSE IF wiki_db THEN Built(TRUE)
    ELSE NewWikiDB(db_url, FALSE)

\* WikiSearcher(db_url=..., wiki_db=...): the WikiDBSearcher is built when
\* db_url or wiki_db is truthy, and __db_searcher is None otherwise.
NewWikiSearcher(db_url, wiki_db) ==
    IF (~db_url.none /\ db_url.url # "") \/ wiki_db
    THEN NewWikiDBSearcher(db_url, wiki_db)
    ELSE Built(FALSE)

\* No constructor call.
NoCtor ==
    [ done |-> FALSE, class |-> "none", db_url |-> NoneU, wiki_db |-> FALSE,
      drop_db |-> FALSE, db_echo |-> FALSE, out |-> NotBuilt("none") ]

\* ------------------------------------------------------------------ a search call
\* The asyncio tasks of the event loop that call WikiSearcher.search.
Tasks == {"t1", "t2"}

\* An optional WikiResult: None, or a result.
NoneR == [none |-> TRUE, value |-> WikiResult(<<>>, <<>>, <<>>, NoSummary, NoneL)]
SomeR(result) == [none |-> FALSE, value |-> result]

\* bool(result.simple_results)
Truthy(simple_results) == ~simple_results.none /\ simple_results.items # <<>>

NoSave == [valid |-> FALSE, text |-> <<>>, query |-> <<>>, key |-> <<>>, lang |-> <<>>]

\* A task that is not inside WikiSearcher.search.
\*   pc             where the call is suspended
\*   op             the function the orm_decorator wrapper is running
\*   wq             the WikiQuery of the call
\*   given          the search parameters as the call received them
\*   result, ret    the result variable; how the call ended
\*   search_results the candidates kept by __api_search_page
\*   page_id        page_id of __save_result (0: None)
\*   http, sess_opened, sess_closed
\*                  requests issued, ClientSessions opened and closed
\*   lookup, fast, api, web, save
\*                  how each part of the call ended ("none": not run;
\*                  "failed": with an exception; "no_results": the API
\*                  search with WikiNoneSearchResults)
\*   hit            id of the page row the cache lookup returned (0: none)
\*   inserts        rows inserted by the call's save_result
\*   prev_save      the latest completed save_result when this one began
IdleCall ==
    [ pc |-> "idle", op |-> "none",
      wq |-> [exc |-> "none", raw_query |-> <<>>, lang |-> <<>>,
              is_link |-> "None", query |-> <<>>],
      given |-> NoQuery.search_params,
      result |-> NoneR,
      ret |-> [kind |-> "pending", exc |-> "none"],
      search_results |-> <<>>,
      page_id |-> 0,
      http |-> 0, sess_opened |-> 0, sess_closed |-> 0,
      lookup |-> "none", fast |-> "none", api |-> "none", web |-> "none",
      save |-> "none", hit |-> 0, inserts |-> 0, prev_save |-> NoSave ]

\* WikiSearcher.search returns its result variable.
Return(c) == [c EXCEPT !.pc = "done", !.ret = [kind |-> "returned", exc |-> "none"]]

\* An exception leaves WikiSearcher.search.
Raise(c, exc) == [c EXCEPT !.pc = "done", !.ret = [kind |-> "raised", exc |-> exc]]

\* WikiDBSearcher.__search / __save_result entered with an ORM session.
\* __save_result does nothing when result.simple_results is falsy.
RunDb(c, operation) ==
    IF operation = "search"
    THEN [c EXCEPT !.op = "search", !.pc = "db_select"]
    ELSE IF Truthy(c.result.value.simple_results)
         THEN [c EXCEPT !.op = "save", !.pc = "save_select_page",
                        !.save = "running", !.prev_save = last_save]
         ELSE Return([c EXCEPT !.op = "save", !.save = "skipped"])

\* The wrapper of WikiDB.orm_decorator, up to its first suspension: it runs
\* setup_db when the database is not configured yet.
EnterDb(c, operation) ==
    IF ~db_configured
    THEN [c EXCEPT !.op = operation,
                   !.pc = IF db_drop_param THEN "setup_drop" ELSE "setup_create"]
    ELSE RunDb(c, operation)

\* WikiApiWebSearcher.api_search entered: the two facet requests are issued.
ApiSearch(c) == [c EXCEPT !.pc = "api_search", !.http = @ + 2]

\* WikiWebSearcher.search that uses the fast scraper in fast mode only.
WebSearchModeOnly(c, sp) ==
    LET opened == [c EXCEPT !.sess_opened = @ + 1, !.web = "running"]
    IN  IF sp.mode = "fast"
        THEN [opened EXCEPT !.pc = "fast_get", !.http = @ + 1]
        ELSE ApiSearch(opened)

\* WikiWebSearcher.search up to its first suspension: the session is opened,
\* then the fast scraper is used in fast mode or for a link, the API
\* scraper otherwise.
WebSearch(c, sp) ==
    LET opened == [c EXCEPT !.sess_opened = @ + 1, !.web = "running"]
    IN  IF sp.mode = "fast" \/ c.wq.is_link = "True"
        THEN [opened EXCEPT !.pc = "fast_get", !.http = @ + 1]
        ELSE ApiSearch(opened)

\* An exception leaves WikiWebSearcher.search and its session stays open.
WebRaiseNoClose(c, exc) == Raise([c EXCEPT !.web = "raised"], exc)

\* An exception leaves WikiWebSearcher.search (its session is closed on
\* the way) and, nothing in WikiSearcher.search catching it there, the call.
WebRaise(c, exc) ==
    Raise([c EXCEPT !.sess_closed = @ + 1, !.web = "raised"], exc)

\* WikiSearcher.search without its `if result is None` branch: the
\* attribute access on None raises.
WebReturnNoNoneCheck(c, result) ==
    LET back == [c EXCEPT !.result = result, !.sess_closed = @ + 1, !.web = "returned"]
    IN  IF result.none THEN Raise(back, "AttributeError")
        ELSE IF ~has_db \/ c.wq.is_link = "True" \/ params.query_treatment = "without"
        THEN Return(back)
        ELSE EnterDb(back, "save")

\* WikiSearcher.search that writes the result of a link query back too.
WebReturnSaveLinks(c, result) ==
    LET back == [c EXCEPT !.result = result, !.sess_closed = @ + 1, !.web = "returned"]
    IN  IF result.none THEN Return(back)
        ELSE IF ~has_db \/ params.query_treatment = "without"
        THEN Return(back)
        ELSE EnterDb(back, "save")

\* WikiWebSearcher.search returns result; WikiSearcher.search goes on from
\* `if result is None` to its end or to the first suspension of save_result.
WebReturn(c, result) ==
    LET back == [c EXCEPT !.result = result, !.sess_closed = @ + 1, !.web = "returned"]
    IN  IF result.none THEN Return(back)
        ELSE IF ~has_db \/ c.wq.is_link = "True" \/ params.query_treatment = "without"
        THEN Return(back)
        ELSE EnterDb(back, "save")

\* The langage the calls are made with.
Lang == <<"en">>

\* The raw queries the calls are made with.
LinkQuery ==
    <<"https", ":", "/", "/", "en", ".", "wikipedia", ".", "org", "/", "wiki", "/", "Entropy">>
OtherLangLinkQuery ==
    <<"https", ":", "/", "/", "ru", ".", "wikipedia", ".", "org", "/", "wiki", "/", "Entropy">>
RawQueries ==
    { <<"entropy">>, <<"Entropy">>, <<"who", " ", "entropy">>, LinkQuery, OtherLangLinkQuery }

\* WikiSearcher.search(query, lang, search_params), up to its first
\* suspension.
Search(p) ==
    /\ p \in tasks
    /\ call[p].pc = "idle"
    /\ ncalls < MaxCalls
    /\ \E raw \in RawQueries :
        LET built == WikiQuery(raw, Lang, params)
            c == [IdleCall EXCEPT
                    !.given = params,
                    !.wq = [exc |-> built.exc, raw_query |-> built.raw_query,
                            lang |-> built.lang, is_link |-> built.is_link,
                            query |-> built.query]]
        IN  /\ params' = built.search_params
            /\ call' = [call EXCEPT ![p] =
                    IF built.exc # "none" THEN Raise(c, built.exc)
                    ELSE IF has_db /\ built.search_params.db_search = "yes"
                    THEN EnterDb(c, "search")
                    ELSE WebSearch(c, built.search_params)]
    /\ ncalls' = ncalls + 1
    /\ UNCHANGED <<pureVars, dbVars, cfgVars, db_configured, last_save, raced>>

\* WikiDB.setup_db: drop_db.
SetupDrop(p) ==
    /\ call[p].pc = "setup_drop"
    /\ pages' = {}
    /\ queries' = {}
    /\ next_id' = [page |-> 1, query |-> 1]
    /\ call' = [call EXCEPT ![p].pc = "setup_create"]
    /\ UNCHANGED <<pureVars, cfgVars, db_configured, params, ncalls, last_save, raced>>

\* WikiDB.setup_db: create_db, then the database counts as configured and
\* the wrapper runs the function it decorates.
SetupCreate(p) ==
    /\ call[p].pc = "setup_create"
    /\ db_configured' = TRUE
    /\ call' = [call EXCEPT ![p] = RunDb(call[p], call[p].op)]
    /\ UNCHANGED <<pureVars, dbVars, cfgVars, params, ncalls, last_save, raced>>

\* WikiDBSearcher.__search: the select answers.  A page found is returned;
\* none found sends the call to the web searcher; DBAPIError leaves the call.
DbSelect(p) ==
    /\ call[p].pc = "db_select"
    /\ \E storage_ok \in BOOLEAN :
        LET c == call[p]
            rows == SearchSelect(c.wq)
            page == First(rows)
        IN  call' = [call EXCEPT ![p] =
                IF ~storage_ok THEN Raise([c EXCEPT !.lookup = "error"], "DBAPIError")
                ELSE IF rows = {} THEN WebSearch([c EXCEPT !.lookup = "miss"], params)
                ELSE Return([c EXCEPT
                        !.lookup = "hit",
                        !.hit = page.id,
                        !.result = SomeR(SearchResult(page, params.mode))])]
    /\ UNCHANGED <<pureVars, dbVars, cfgVars, db_configured, params, ncalls, last_save, raced>>

\* WikiFastWebSearcher.fast_search: the response arrives and is parsed.
FastResponse(p) ==
    /\ call[p].pc = "fast_get"
    /\ \E response \in PageResponses :
        LET c == call[p]
            parsed == Parse(response.body, FALSE)
            exc == IF GetResponse(response) # "none" THEN GetResponse(response)
                   ELSE parsed.exc
        IN  call' = [call EXCEPT ![p] =
                IF exc = "none"
                THEN WebReturn([c EXCEPT !.fast = "ok"],
                               SomeR(WikiResult(parsed.key, parsed.title, c.wq.lang,
                                                parsed.summary, NoneL)))
                ELSE IF exc \in WikiScraperExc
                THEN ApiSearch([c EXCEPT !.fast = "failed"])
                ELSE WebRaise([c EXCEPT !.fast = "failed"], exc)]
    /\ UNCHANGED <<pureVars, dbVars, cfgVars, db_configured, params, ncalls, last_save, raced>>

\* WikiApiWebSearcher.__api_search_page: both facet responses arrive.
ApiSearchResponse(p) ==
    /\ call[p].pc = "api_search"
    /\ \E by_title \in FacetResponses, by_content \in FacetResponses :
       \E exc \in IF GetResponse(by_title) = "none" /\ GetResponse(by_content) = "none"
                  THEN {ApiSearchPage(by_title.body, by_content.body, params).exc}
                  ELSE {GetResponse(by_title), GetResponse(by_content)} \ {"none"} :
        LET c == call[p]
        IN  call' = [call EXCEPT ![p] =
                IF exc = "none"
                THEN [c EXCEPT
                        !.search_results =
                            ApiSearchPage(by_title.body, by_content.body, params).list,
                        !.pc = "api_page",
                        !.http = @ + 1]
                ELSE IF exc \in WikiScraperExc
                THEN WebReturn([c EXCEPT !.api = IF exc = "WikiNoneSearchResults"
                                                 THEN "no_results" ELSE "failed"],
                               c.result)
                ELSE WebRaise([c EXCEPT !.api = "failed"], exc)]
    /\ UNCHANGED <<pureVars, dbVars, cfgVars, db_configured, params, ncalls, last_save, raced>>

\* WikiApiWebSearcher.api_search: the page of the first candidate arrives,
\* its summary is parsed and the result is built.
ApiPageResponse(p) ==
    /\ call[p].pc = "api_page"
    /\ \E response \in PageResponses :
        LET c == call[p]
            parsed == Parse(response.body, TRUE)
            exc == IF GetResponse(response) # "none" THEN GetResponse(response)
                   ELSE parsed.exc
        IN  call' = [call EXCEPT ![p] =
                IF exc = "none"
                THEN WebReturn([c EXCEPT !.api = "ok", !.search_results = <<>>],
                               SomeR(WikiResult(c.search_results[1].key,
                                                c.search_results[1].title,
                                                c.wq.lang, parsed.summary,
                                                SomeL(GetLinks(c.search_results, c.wq.lang)))))
                ELSE IF exc \in WikiScraperExc
                THEN WebReturn([c EXCEPT !.api = "failed", !.search_results = <<>>],
                               c.result)
                ELSE WebRaise([c EXCEPT !.api = "failed", !.search_results = <<>>], exc)]
    /\ UNCHANGED <<pureVars, dbVars, cfgVars, db_configured, params, ncalls, last_save, raced>>

\* __save_result ran to its end.
SaveReturn(c) == Return([c EXCEPT !.save = "returned"])

\* DBAPIError leaves __save_result, save_result and WikiSearcher.search.
SaveRaise(c) == Raise([c EXCEPT !.save = "raised"], "DBAPIError")

\* The call as save_result records itself when it ends.
SaveRecord(c) ==
    [ valid |-> TRUE, text |-> c.wq.query, query |-> Lower(c.wq.query),
      key |-> c.result.value.key, lang |-> c.result.value.lang ]

\* __save_result that adds the page without looking at what the select found.
SavePageIdNoCheck(c, rows) == [c EXCEPT !.pc = "save_add_page"]

\* __save_result after select_page_id_by_key: the page is added when no
\* row was found, else the row's id is used.
SavePageId(c, rows) ==
    IF rows = {} THEN [c EXCEPT !.pc = "save_add_page"]
    ELSE [c EXCEPT !.pc = "save_select_query", !.page_id = First(rows).id]

\* __save_result after select_query_id: the query is added when no row was
\* found, else the function ends.
SaveQueryId(c, rows) ==
    IF rows = {} THEN [c EXCEPT !.pc = "save_add_query"]
    ELSE SaveReturn(c)

\* __save_result: select_page_id_by_key answers.
SaveSelectPage(p) ==
    /\ call[p].pc = "save_select_page"
    /\ \E storage_ok \in BOOLEAN :
        LET c == call[p]
            rows == SelectPagesByKey(c.result.value.key, c.result.value.lang)
        IN  /\ call' = [call EXCEPT ![p] =
                    IF ~storage_ok THEN SaveRaise(c) ELSE SavePageId(c, rows)]
            /\ raced' = ( \/ raced
                          \/ /\ storage_ok
                             /\ rows = {}
                             /\ \E q \in Tasks \ {p} :
                                  /\ call[q].pc = "save_add_page"
                                  /\ call[q].result.value.key = c.result.value.key
                                  /\ call[q].result.value.lang = c.result.value.lang )
    /\ UNCHANGED <<pureVars, dbVars, cfgVars, db_configured, params, ncalls, last_save>>

\* __save_result: add_page inserts the page row, or fails with DBAPIError.
SaveAddPage(p) ==
    /\ call[p].pc = "save_add_page"
    /\ \E storage_ok \in BOOLEAN :
        LET c == call[p]
        IN  IF storage_ok
            THEN /\ pages' = pages \cup {PageRow(next_id.page, c.result.value)}
                 /\ next_id' = [next_id EXCEPT !.page = @ + 1]
                 /\ call' = [call EXCEPT ![p] =
                        [c EXCEPT !.pc = "save_select_query",
                                  !.page_id = next_id.page,
                                  !.inserts = @ + 1]]
            ELSE /\ call' = [call EXCEPT ![p] = SaveRaise(c)]
                 /\ UNCHANGED <<pages, next_id>>
    /\ UNCHANGED <<pureVars, queries, cfgVars, db_configured, params, ncalls, last_save, raced>>

\* __save_result: select_query_id answers.
SaveSelectQuery(p) ==
    /\ call[p].pc = "save_select_query"
    /\ \E storage_ok \in BOOLEAN :
        LET c == call[p]
            rows == SelectQueries(Lower(c.wq.query), c.result.value.lang, c.page_id)
        IN  /\ call' = [call EXCEPT ![p] =
                    IF ~storage_ok THEN SaveRaise(c) ELSE SaveQueryId(c, rows)]
            /\ last_save' = IF storage_ok /\ SaveQueryId(c, rows).pc = "done"
                            THEN SaveRecord(c) ELSE last_save
            /\ raced' = ( \/ raced
                          \/ /\ storage_ok
                             /\ rows = {}
                             /\ \E q \in Tasks \ {p} :
                                  /\ call[q].pc = "save_add_query"
                                  /\ Lower(call[q].wq.query) = Lower(c.wq.query)
                                  /\ call[q].result.value.lang = c.result.value.lang
                                  /\ call[q].page_id = c.page_id )
    /\ UNCHANGED <<pureVars, dbVars, cfgVars, db_configured, params, ncalls>>

\* __save_result: add_query inserts the query row, or fails with DBAPIError.
SaveAddQuery(p) ==
    /\ call[p].pc = "save_add_query"
    /\ \E storage_ok \in BOOLEAN :
        LET c == call[p]
        IN  IF storage_ok
            THEN /\ queries' = queries \cup
                        {QueryRow(next_id.query, Lower(c.wq.query),
                                  c.result.value.lang, c.page_id)}
                 /\ next_id' = [next_id EXCEPT !.query = @ + 1]
                 /\ call' = [call EXCEPT ![p] = SaveReturn([c EXCEPT !.inserts = @ + 1])]
                 /\ last_save' = SaveRecord(c)
            ELSE /\ call' = [call EXCEPT ![p] = SaveRaise(c)]
                 /\ UNCHANGED <<queries, next_id, last_save>>
    /\ UNCHANGED <<pureVars, pages, cfgVars, db_configured, params, ncalls, raced>>

\* The caller has the outcome of its call; the task may call again.
Finish(p) ==
    /\ call[p].pc = "done"
    /\ call' = [call EXCEPT ![p] = IdleCall]
    /\ UNCHANGED <<pureVars, dbVars, cfgVars, db_configured, params, ncalls, last_save, raced>>

\* ------------------------------------------------------------------ Spec, SpecSeq

\* The search parameters a run starts with.
InitParams ==
    { sp \in SearchParams : sp.priority = "title" }

InitSearch(running) ==
    /\ has_db \in BOOLEAN
    /\ db_drop_param \in BOOLEAN
    /\ db_configured = FALSE
    /\ params \in InitParams
    /\ params0 = params
    /\ pages = {}
    /\ queries = {}
    /\ next_id = [page |-> 1, query |-> 1]
    /\ call = [p \in Tasks |-> IdleCall]
    /\ ncalls = 0
    /\ last_save = NoSave
    /\ raced = FALSE
    /\ tasks = running

\* No WikiSearcher is in use.
SearchIdle ==
    /\ has_db = FALSE
    /\ db_drop_param = FALSE
    /\ db_configured = FALSE
    /\ params = NoQuery.search_params
    /\ params0 = params
    /\ pages = {}
    /\ queries = {}
    /\ next_id = [page |-> 1, query |-> 1]
    /\ call = [p \in Tasks |-> IdleCall]
    /\ ncalls = 0
    /\ last_save = NoSave
    /\ raced = FALSE
    /\ tasks = {}

\* No API search and no cache hit is run on its own.
NoApiOut == [done |-> FALSE, exc |-> "none", list |-> <<>>]
ApiIdle ==
    /\ apiIn = [title_pages |-> <<>>, content_pages |-> <<>>,
                search_params |-> NoQuery.search_params]
    /\ apiOut = NoApiOut
NoPage ==
    [ id |-> 0, key |-> <<>>, title |-> <<>>, lang |-> <<>>, summary |-> NoSummary,
      simple_results |-> <<>> ]
ConvIdle ==
    /\ cvIn = [page |-> NoPage, mode |-> "default"]
    /\ cvOut = [done |-> FALSE, value |-> NoneR.value]

\* No value is being built on its own.
PureIdle ==
    /\ srIn = [title |-> <<>>, list |-> NoneL]
    /\ srOut = [done |-> FALSE, value |-> NoneL]
    /\ wqIn = [raw_query |-> <<>>, lang |-> <<>>, search_params |-> NoQuery.search_params]
    /\ wqOut = [done |-> FALSE, value |-> NoQuery]
    /\ wqAgain = [done |-> FALSE, value |-> NoQuery]
    /\ ctor = NoCtor
    /\ ApiIdle
    /\ ConvIdle

\* Two tasks call search on one WikiSearcher, concurrently.
Init == PureIdle /\ InitSearch(Tasks)

\* One task calls search on a WikiSearcher, one call after the other.
InitSeq == PureIdle /\ InitSearch({"t1"})

Next ==
    \E p \in Tasks :
        \/ Search(p)
        \/ SetupDrop(p)
        \/ SetupCreate(p)
        \/ DbSelect(p)
        \/ FastResponse(p)
        \/ ApiSearchResponse(p)
        \/ ApiPageResponse(p)
        \/ SaveSelectPage(p)
        \/ SaveAddPage(p)
        \/ SaveSelectQuery(p)
        \/ SaveAddQuery(p)
        \/ Finish(p)

Spec == Init /\ [][Next]_vars

SpecSeq == InitSeq /\ [][Next]_vars

\* ------------------------------------------------------------------ SpecSR
\* The simple_results setter applied to every list of up to MaxList
\* related results.
SRTitles == { <<"Entropy">>, <<"entropy">>, <<"ENTROPY">>, <<"Gravity">> }
SREntries == { WikiSimpleResult(t, t, "en") : t \in SRTitles }
SRInputs ==
    [ title : { <<"Entropy">> },
      list  : {SomeL(l) : l \in SeqsUpTo(SREntries, MaxList)} \cup {NoneL} ]

InitSR ==
    /\ srIn \in SRInputs
    /\ srOut = [done |-> FALSE, value |-> NoneL]
    /\ wqIn = [raw_query |-> <<>>, lang |-> <<>>, search_params |-> NoQuery.search_params]
    /\ wqOut = [done |-> FALSE, value |-> NoQuery]
    /\ wqAgain = [done |-> FALSE, value |-> NoQuery]
    /\ ctor = NoCtor
    /\ ApiIdle
    /\ ConvIdle
    /\ SearchIdle

SetSimpleResults ==
    /\ ~srOut.done
    /\ srOut' = [done |-> TRUE, value |-> SimpleResultsSetter(srIn.title, srIn.list)]
    /\ UNCHANGED <<srIn, wqIn, wqOut, wqAgain, ctor, apiVars, cvVars, searchVars>>

NextSR == SetSimpleResults

SpecSR == InitSR /\ [][NextSR]_vars

\* ------------------------------------------------------------------ SpecWQ
\* WikiQuery built from every raw query of up to MaxRaw atoms and from
\* every link-shaped raw query whose host has up to MaxLabels labels; then
\* WikiQuery built again from the key of the first.
RawAlphabet == {"who", "What", "entropy", "Law", " ", "_", "?"}
LinkSchemes == { <<"https", ":">>, <<"http", ":">> }
LinkLabels == { <<"en">>, <<"wikipedia">>, <<"org">> }
LinkHosts == { Join(labels, <<".">>) : labels \in SeqsUpTo(LinkLabels, MaxLabels) }
LinkPaths == { <<>>, <<"/", "wiki", "/", "Entropy">> }
LinkRaws ==
    LinkSchemes \cup
    { scheme \o <<"/", "/">> \o host \o path :
        scheme \in LinkSchemes, host \in LinkHosts, path \in LinkPaths }
WQLangs == { <<"en">>, <<"zz">> }
WQParams ==
    { sp \in SearchParams : sp.mode = "default" /\ sp.priority = "title" /\ sp.db_search = "yes" }
WQInputs ==
    [ raw_query     : SeqsUpTo(RawAlphabet, MaxRaw) \cup LinkRaws,
      lang          : WQLangs,
      search_params : WQParams ]

InitWQ ==
    /\ wqIn \in WQInputs
    /\ wqOut = [done |-> FALSE, value |-> NoQuery]
    /\ wqAgain = [done |-> FALSE, value |-> NoQuery]
    /\ ctor = NoCtor
    /\ ApiIdle
    /\ ConvIdle
    /\ srIn = [title |-> <<>>, list |-> NoneL]
    /\ srOut = [done |-> FALSE, value |-> NoneL]
    /\ SearchIdle

NewWikiQuery ==
    /\ ~wqOut.done
    /\ wqOut' = [done |-> TRUE,
                 value |-> WikiQuery(wqIn.raw_query, wqIn.lang, wqIn.search_params)]
    /\ UNCHANGED <<srIn, srOut, wqIn, wqAgain, ctor, apiVars, cvVars, searchVars>>

\* WikiQuery(key, lang, search_params) for the key of the WikiQuery built
\* first, with the language and the search parameters of the first call.
NormalizeAgain ==
    /\ wqOut.done
    /\ wqOut.value.exc = "none"
    /\ ~wqAgain.done
    /\ wqAgain' = [done |-> TRUE,
                   value |-> WikiQuery(wqOut.value.query, wqIn.lang, wqIn.search_params)]
    /\ UNCHANGED <<srIn, srOut, wqIn, wqOut, ctor, apiVars, cvVars, searchVars>>

NextWQ == NewWikiQuery \/ NormalizeAgain

SpecWQ == InitWQ /\ [][NextWQ]_vars

\* ------------------------------------------------------------------ SpecNew
\* One constructor call for each class that takes a connection string or a
\* store handle, with every combination of its arguments.
CtorClasses == {"WikiSearcher", "WikiDBSearcher", "WikiDB"}
CtorUrls == { NoneU, SomeU(""), SomeU("sqlite+aiosqlite:///wiki.db") }
CtorInputs ==
    [ done : {FALSE}, class : CtorClasses, db_url : CtorUrls, wiki_db : BOOLEAN,
      drop_db : BOOLEAN, db_echo : BOOLEAN, out : {NotBuilt("none")} ]

InitNew ==
    /\ ctor \in CtorInputs
    /\ srIn = [title |-> <<>>, list |-> NoneL]
    /\ srOut = [done |-> FALSE, value |-> NoneL]
    /\ wqIn = [raw_query |-> <<>>, lang |-> <<>>, search_params |-> NoQuery.search_params]
    /\ wqOut = [done |-> FALSE, value |-> NoQuery]
    /\ wqAgain = [done |-> FALSE, value |-> NoQuery]
    /\ ApiIdle
    /\ ConvIdle
    /\ SearchIdle

Construct ==
    /\ ~ctor.done
    /\ ctor' = [ctor EXCEPT
                  !.done = TRUE,
                  !.out = CASE ctor.class = "WikiSearcher" ->
                                  NewWikiSearcher(ctor.db_url, ctor.wiki_db)
                            [] ctor.class = "WikiDBSearcher" ->
                                  NewWikiDBSearcher(ctor.db_url, ctor.wiki_db)
                            [] OTHER -> NewWikiDB(ctor.db_url, ctor.wiki_db)]
    /\ UNCHANGED <<srIn, srOut, wqIn, wqOut, wqAgain, apiVars, cvVars, searchVars>>

NextNew == Construct

SpecNew == InitNew /\ [][NextNew]_vars

\* ------------------------------------------------------------------ SpecApi
\* __api_search_page applied to the first k entries of the title ranking
\* and the first m entries of the content ranking, for every k and m up to
\* MaxPages, every priority and every number_of_results up to MaxResults.
PageNames == <<"Entropy", "Gravity", "Law", "Heat", "Work", "Order", "Time", "Mass", "Force">>
TitleRanking(k) == [ i \in 1..k |-> Candidate(<<PageNames[i]>>, <<PageNames[i]>>) ]
ContentRanking(m) ==
    [ i \in 1..m |-> Candidate(<<PageNames[i], " ", "law">>, <<PageNames[i], "_", "law">>) ]
ApiParams ==
    [ mode              : {"default"},
      priority          : {"title", "content"},
      number_of_results : 1..MaxResults,
      query_treatment   : {"clean"},
      db_search         : {"yes"},
      db_search_by_url  : {"yes"} ]
\* A facet answers with at most "limit" candidates.
ApiInputs ==
    { in \in [ title_pages   : { TitleRanking(k) : k \in 0..MaxPages },
               content_pages : { ContentRanking(m) : m \in 0..MaxPages },
               search_params : ApiParams ] :
        LET limit == in.search_params.number_of_results * (1 + OverFetch)
        IN  Len(in.title_pages) <= limit /\ Len(in.content_pages) <= limit }

InitApi ==
    /\ apiIn \in ApiInputs
    /\ apiOut = NoApiOut
    /\ srIn = [title |-> <<>>, list |-> NoneL]
    /\ srOut = [done |-> FALSE, value |-> NoneL]
    /\ wqIn = [raw_query |-> <<>>, lang |-> <<>>, search_params |-> NoQuery.search_params]
    /\ wqOut = [done |-> FALSE, value |-> NoQuery]
    /\ wqAgain = [done |-> FALSE, value |-> NoQuery]
    /\ ctor = NoCtor
    /\ ConvIdle
    /\ SearchIdle

RunApiSearchPage ==
    /\ ~apiOut.done
    /\ apiOut' = LET out == ApiSearchPage(apiIn.title_pages, apiIn.content_pages,
                                          apiIn.search_params)
                 IN  [done |-> TRUE, exc |-> out.exc, list |-> out.list]
    /\ UNCHANGED <<srIn, srOut, wqIn, wqOut, wqAgain, ctor, apiIn, cvVars, searchVars>>

NextApi == RunApiSearchPage

SpecApi == InitApi /\ [][NextApi]_vars

\* ------------------------------------------------------------------ SpecConv
\* A cache hit on a page row written by add_page: one to five stored
\* related results, each of another page, in the first columns, the other
\* columns empty.
StoredStrings ==
    { <<"Gravity", "|", "Gravity">>,
      <<"Heat", "|", "Work", "|", "Heat_Work">>,
      <<"Law", "|", "Law">>,
      <<"Time", "|", "Time">>,
      <<"ENTROPY", "|", "ENTROPY">> }
StoredColumns ==
    { filled \o [ i \in 1..(5 - Len(filled)) |-> <<>> ] :
        filled \in { f \in SeqsUpTo(StoredStrings, 5) :
                       /\ f # <<>>
                       /\ \A i, j \in 1..Len(f) : f[i] = f[j] => i = j } }
ConvInputs ==
    [ page : { [ id |-> 1, key |-> <<"Entropy">>, title |-> <<"Entropy">>,
                 lang |-> <<"en">>, summary |-> [of |-> <<"Entropy">>, len |-> 10],
                 simple_results |-> cols ] : cols \in StoredColumns },
      mode : {"fast", "default"} ]

InitConv ==
    /\ cvIn \in ConvInputs
    /\ cvOut = [done |-> FALSE, value |-> NoneR.value]
    /\ srIn = [title |-> <<>>, list |-> NoneL]
    /\ srOut = [done |-> FALSE, value |-> NoneL]
    /\ wqIn = [raw_query |-> <<>>, lang |-> <<>>, search_params |-> NoQuery.search_params]
    /\ wqOut = [done |-> FALSE, value |-> NoQuery]
    /\ wqAgain = [done |-> FALSE, value |-> NoQuery]
    /\ ctor = NoCtor
    /\ ApiIdle
    /\ SearchIdle

CacheHit ==
    /\ ~cvOut.done
    /\ cvOut' = [done |-> TRUE, value |-> SearchResult(cvIn.page, cvIn.mode)]
    /\ UNCHANGED <<srIn, srOut, wqIn, wqOut, wqAgain, ctor, apiVars, cvIn, searchVars>>

NextConv == CacheHit

SpecConv == InitConv /\ [][NextConv]_vars

\* ================================================================== claims

\* C1: a failure of the fast scraper is never what WikiWebSearcher.search
\* ends with: after it the API scraper is run, and when the API scraper
\* succeeds the web searcher returns the API scraper's result.
C1_FastFailureNeverSurfaces ==
    \A p \in Tasks :
        call[p].fast = "failed" =>
            /\ call[p].web = "raised" => call[p].api # "none"
            /\ call[p].api = "ok" =>
                  /\ call[p].web = "returned"
                  /\ ~call[p].result.none
                  /\ ~call[p].result.value.simple_results.none

\* C2: a cache lookup made while the store holds a page and a query row for
\* the query's key and language ends the call with the result built from a
\* stored page of that query, no session opened and no request issued.
StoreHolds(wq) ==
    \E q \in queries, r \in pages :
        q.query = wq.query /\ q.lang = wq.lang /\ q.page_id = r.id
C2_CacheHitShortCircuits ==
    [][ \A p \in Tasks :
          ( /\ call[p].pc = "db_select"
            /\ call'[p].pc # "db_select"
            /\ call'[p].lookup # "error"
            /\ StoreHolds(call[p].wq) )
          => /\ call'[p].pc = "done"
             /\ call'[p].ret.kind = "returned"
             /\ ~call'[p].result.none
             /\ \E r \in SelectPagesByQuery(call[p].wq.query, call[p].wq.lang) :
                   /\ call'[p].hit = r.id
                   /\ call'[p].result.value.key = r.key
                   /\ call'[p].result.value.title = r.title
                   /\ call'[p].result.value.lang = r.lang
                   /\ call'[p].result.value.summary = r.summary
             /\ call'[p].http = 0
             /\ call'[p].sess_opened = 0 ]_vars
C2_Witness ==
    \E p \in Tasks :
        /\ call[p].pc = "done"
        /\ call[p].lookup = "hit"
        /\ call[p].ret.kind = "returned"
        /\ call[p].http = 0
        /\ StoreHolds(call[p].wq)

\* C3: when the web searcher finds nothing, in particular when both facets
\* of the API search are empty, the call returns None, raises nothing and
\* writes nothing to the cache.
C3_NothingFoundReturnsNone ==
    \A p \in Tasks :
        ( \/ call[p].api = "no_results"
          \/ call[p].web = "returned" /\ call[p].result.none )
        => /\ call[p].pc = "done"
           /\ call[p].ret.kind = "returned"
           /\ call[p].result.none
           /\ call[p].save = "none"
           /\ call[p].inserts = 0
C3_Witness ==
    \E p \in Tasks :
        /\ call[p].pc = "done"
        /\ call[p].api = "no_results"
        /\ call[p].lookup = "miss"
        /\ call[p].ret.kind = "returned"
        /\ call[p].result.none

\* C4: a write-back that fails with a storage error does not end the
\* search with that error; the search returns the web result.
C4_SaveFailureNotPropagated ==
    \A p \in Tasks :
        (call[p].pc = "done" /\ call[p].save = "raised") =>
            /\ call[p].ret.kind = "returned"
            /\ ~call[p].result.none

\* C5: a save_result that runs to its end after an earlier one for the same
\* (key, lang, query) ran to its end inserts nothing, and leaves exactly
\* one page row for (key, lang) and one query row for (query, lang, page).
C5_SaveTwiceIdempotent ==
    \A p \in Tasks :
        ( /\ call[p].pc = "done"
          /\ call[p].save = "returned"
          /\ call[p].prev_save = SaveRecord(call[p]) )
        => /\ call[p].inserts = 0
           /\ Cardinality(SelectPagesByKey(call[p].result.value.key,
                                           call[p].result.value.lang)) = 1
           /\ Cardinality(SelectQueries(Lower(call[p].wq.query),
                                        call[p].result.value.lang,
                                        call[p].page_id)) = 1
C5_Witness ==
    \E p \in Tasks :
        /\ call[p].pc = "done"
        /\ call[p].save = "returned"
        /\ call[p].prev_save = SaveRecord(call[p])
        /\ call[p].inserts = 0

\* C6: under every interleaving of two concurrent write-backs the store
\* holds at most one page row for a (key, lang) and at most one query row
\* for a (query, lang, page).
NoDuplicateRows ==
    /\ \A r1 \in pages, r2 \in pages :
          (r1.key = r2.key /\ r1.lang = r2.lang) => r1.id = r2.id
    /\ \A q1 \in queries, q2 \in queries :
          (q1.query = q2.query /\ q1.lang = q2.lang /\ q1.page_id = q2.page_id)
              => q1.id = q2.id
DuplicatesOnlyWhenChecksOverlap == ~raced => NoDuplicateRows

\* C7: every call is given the search parameters as its caller built them,
\* whatever the calls before it or beside it did.
C7_ParamsNotSharedState ==
    \A p \in Tasks : call[p].pc # "idle" => call[p].given = params0

\* C8: when simple_results is a list, no entry's title equals the result's
\* own title case-insensitively, and the list has at most 5 entries.
C8_NoSelfMatchAndCapped ==
    (srOut.done /\ ~srOut.value.none) =>
        /\ Len(srOut.value.items) <= 5
        /\ \A i \in 1..Len(srOut.value.items) :
              Lower(srOut.value.items[i].title) # Lower(srIn.title)

\* C9: simple_results is None only when None was supplied; a supplied list,
\* even one that is or becomes empty, is stored as a list.
C9_NoneOnlyWhenNoneSupplied ==
    srOut.done => (srOut.value.none <=> srIn.list.none)

\* C10: for a non-link query under the normalize treatment the key is the
\* underscore-join of the word tokens that are not stop words, and the raw
\* query with spaces replaced by underscores when no token survives.
IsStopWord(word) == Lower(word) \in query_clean_list
KeptWord(word) == ~IsStopWord(word)
C10_KeyDropsStopWords ==
    ( /\ wqOut.done
      /\ wqOut.value.is_link = "False"
      /\ wqIn.search_params.query_treatment = "clean"
      /\ wqIn.lang \in SpellLangs )
    => LET kept == SelectSeq(SplitWords(wqIn.raw_query), KeptWord)
       IN  /\ wqOut.value.exc = "none"
           /\ wqOut.value.query = IF kept = <<>>
                                  THEN Replace(wqIn.raw_query, " ", "_")
                                  ELSE Join(kept, <<"_">>)

\* C11: a raw query that starts with https:// and whose host has the label
\* "wikipedia" first or second, however many labels the host has, gives
\* is_link = True and a key equal to the raw query.
HostLabels(raw_query) ==
    Split(Split(SubSeq(raw_query, 5, Len(raw_query)), <<"/">>)[1], <<".">>)
IsWikipediaLink(raw_query) ==
    /\ Len(raw_query) >= 4
    /\ SubSeq(raw_query, 1, 4) = <<"https", ":", "/", "/">>
    /\ LET labels == HostLabels(raw_query)
       IN  \/ labels[1] = <<"wikipedia">>
           \/ Len(labels) >= 2 /\ labels[2] = <<"wikipedia">>
C11_WikipediaLinkKeptAsLink ==
    (wqOut.done /\ IsWikipediaLink(wqIn.raw_query))
    => /\ wqOut.value.exc = "none"
       /\ wqOut.value.is_link = "True"
       /\ wqOut.value.query = wqIn.raw_query

\* C12: building a WikiQuery raises nothing, whatever the raw query, the
\* language and the search parameters, and leaves is_link a boolean.
C12_NormalizationTotal ==
    wqOut.done => /\ wqOut.value.exc = "none"
                  /\ wqOut.value.is_link \in {"True", "False"}

C14_NormalizationIdempotent ==
    ( /\ wqAgain.done
      /\ wqOut.value.is_link # "True"
      /\ wqIn.search_params.query_treatment = "clean" )
    => /\ wqAgain.value.exc = "none"
       /\ wqAgain.value.query = wqOut.value.query

\* C15: a search whose WikiQuery was built looks the cache up if and only
\* if a cache is configured and db_search is yes once __link_checker has
\* adjusted it; a link query with db_search_by_url = no makes no lookup.
LookupAttempted(c) == c.op = "search" \/ c.lookup # "none"
SaveInvoked(c) == c.op = "save"
C16_SaveExactlyWhenAllowed ==
    \A p \in Tasks :
        LET c == call[p]
        IN  SaveInvoked(c) <=>
                /\ c.web = "returned"
                /\ ~c.result.none
                /\ has_db
                /\ c.wq.is_link # "True"
                /\ params.query_treatment # "without"
C16_Witness ==
    \E p \in Tasks, q \in Tasks :
        /\ call[p].pc = "done" /\ call[p].save = "returned" /\ call[p].inserts = 2
        /\ call[q].pc = "done" /\ call[q].web = "returned" /\ ~call[q].result.none
        /\ call[q].wq.is_link = "True" /\ call[q].op # "save"

\* C17: no step of a save_result call whose result has falsy simple_results
\* changes the store, and the call inserts nothing.
C17_FalsySaveLeavesStore ==
    [][ \A p \in Tasks :
          ( /\ call[p].op = "save"
            /\ ~Truthy(call[p].result.value.simple_results)
            /\ call'[p] # call[p] )
          => /\ UNCHANGED dbVars
             /\ call'[p].inserts = 0 ]_vars

\* C18: a WikiWebSearcher.search call opens one session, every request of
\* the call is issued while that session is open, and the session is
\* closed once the call has returned or raised.
C18_OneSessionPerWebSearch ==
    /\ [] \A p \in Tasks :
            /\ call[p].web = "none" =>
                  call[p].sess_opened = 0 /\ call[p].sess_closed = 0 /\ call[p].http = 0
            /\ call[p].web = "running" =>
                  call[p].sess_opened = 1 /\ call[p].sess_closed = 0
            /\ call[p].web \in {"returned", "raised"} =>
                  call[p].sess_opened = 1 /\ call[p].sess_closed = 1
    /\ [][ \A p \in Tasks :
              call'[p].http > call[p].http =>
                  call'[p].sess_opened = 1 /\ call'[p].sess_closed = 0 ]_vars
C18_Witness ==
    \E p \in Tasks, q \in Tasks :
        /\ call[p].pc = "done" /\ call[p].fast = "failed" /\ call[p].api = "ok"
        /\ call[p].http = 4 /\ call[p].sess_opened = 1 /\ call[p].sess_closed = 1
        /\ call[q].pc = "done" /\ call[q].web = "raised"
        /\ call[q].sess_opened = 1 /\ call[q].sess_closed = 1

\* C19 as stated: every constructor call that is given neither a store
\* handle nor a connection string ends with an exception.
C19_MissingBothAlwaysRaises ==
    (ctor.done /\ ctor.db_url.none /\ ~ctor.wiki_db) => ctor.out.exc # "none"

\* C19 as amended: a cache component given neither a store handle nor a
\* connection string is not built: WikiDB and WikiDBSearcher raise ValueError in their
\* constructors, and WikiSearcher builds no cache component; every cache
\* component that is built was given one of the two.
C19_NoCacheWithoutUrlOrHandle ==
    ctor.done =>
        /\ (ctor.db_url.none /\ ~ctor.wiki_db) =>
              /\ ~ctor.out.has_cache
              /\ ctor.class \in {"WikiDBSearcher", "WikiDB"} => ctor.out.exc = "ValueError"
        /\ ctor.out.has_cache =>
              /\ ctor.out.exc = "none"
              /\ ~ctor.db_url.none \/ ctor.wiki_db
C19_Witness ==
    /\ ctor.done
    /\ ctor.class = "WikiDBSearcher"
    /\ ctor.db_url.none /\ ~ctor.wiki_db
    /\ ctor.out.exc = "ValueError"

\* C20: the fast scraper is used if and only if mode is fast or the query
\* is a link, and then before the API scraper; otherwise the API scraper
\* is entered directly and its two facet requests are the first requests.
FastAttempted(c) == c.pc = "fast_get" \/ c.fast # "none"
ApiEntered(c) == c.pc \in {"api_search", "api_page"} \/ c.api # "none"
C20_FastIffModeOrLink ==
    \A p \in Tasks :
        call[p].web # "none"
        => LET c == call[p]
               pre == params.mode = "fast" \/ c.wq.is_link = "True"
           IN  /\ FastAttempted(c) <=> pre
               /\ c.pc = "fast_get" => (~ApiEntered(c) /\ c.http = 1)
               /\ (pre /\ ApiEntered(c)) => c.fast = "failed"
               /\ (~pre /\ c.pc = "api_search") => c.http = 2
C20_Witness ==
    \E p \in Tasks, q \in Tasks :
        /\ call[p].pc = "done" /\ call[p].wq.is_link = "True"
        /\ params.mode = "default"
        /\ call[p].fast = "failed" /\ call[p].api = "ok"
        /\ call[q].pc = "done" /\ call[q].wq.is_link = "False"
        /\ call[q].fast = "none" /\ call[q].api = "ok"

\* C22: __api_search_page raises WikiNoneSearchResults exactly when both
\* facet lists are empty; otherwise the candidates it keeps are the leading
\* candidates of the priority facet's list when that list is not empty, of
\* the other facet's list when it is.
C22_PriorityFacetElseOther ==
    apiOut.done =>
        LET priority_pages == IF apiIn.search_params.priority = "content"
                              THEN apiIn.content_pages ELSE apiIn.title_pages
            other_pages == IF apiIn.search_params.priority = "content"
                           THEN apiIn.title_pages ELSE apiIn.content_pages
            expected == IF Len(priority_pages) > 0 THEN priority_pages ELSE other_pages
        IN  /\ (apiOut.exc = "WikiNoneSearchResults")
                    <=> (apiIn.title_pages = <<>> /\ apiIn.content_pages = <<>>)
            /\ apiOut.exc \in {"none", "WikiNoneSearchResults"}
            /\ apiOut.exc = "none" =>
                    /\ Len(apiOut.list) \in 1..Len(expected)
                    /\ \A i \in 1..Len(apiOut.list) : apiOut.list[i] = expected[i]

C22_Witness ==
    /\ apiOut.done
    /\ apiIn.search_params.priority = "content"
    /\ apiIn.content_pages = <<>>
    /\ Len(apiIn.title_pages) > 0
    /\ apiOut.exc = "none"
    /\ apiOut.list[1] = apiIn.title_pages[1]

\* C23: the candidates __api_search_page keeps are the first
\* number_of_results candidates of the chosen list, or the whole list when
\* it is shorter.
C23_TruncatedToNumberOfResults ==
    (apiOut.done /\ apiOut.exc = "none") =>
        LET chosen == IF apiIn.search_params.priority = "content"
                      THEN (IF apiIn.content_pages # <<>> THEN apiIn.content_pages
                            ELSE apiIn.title_pages)
                      ELSE (IF apiIn.title_pages # <<>> THEN apiIn.title_pages
                            ELSE apiIn.content_pages)
            n == apiIn.search_params.number_of_results
        IN  apiOut.list = SubSeq(chosen, 1, IF Len(chosen) < n THEN Len(chosen) ELSE n)

\* C26: the result of a cache hit has no related results in fast mode;
\* in default mode its related results are, in order, one entry for every
\* non-empty stored string whose title is not the page's own: the title is
\* the text before the first "|", the link the text after the last "|",
\* and there are at most five.
StoredTitle(res) ==
    IF Find(res, <<"|">>) = 0 THEN res ELSE SubSeq(res, 1, Find(res, <<"|">>) - 1)
RECURSIVE StoredLink(_)
StoredLink(res) ==
    IF Find(res, <<"|">>) = 0 THEN res
    ELSE StoredLink(SubSeq(res, Find(res, <<"|">>) + 1, Len(res)))
C26_RelatedRebuiltFromStored ==
    cvOut.done =>
        IF cvIn.mode = "fast" THEN cvOut.value.simple_results.none
        ELSE LET kept(res) == res # <<>> /\ Lower(StoredTitle(res)) # Lower(cvIn.page.title)
                 stored == SelectSeq(cvIn.page.simple_results, kept)
             IN  /\ ~cvOut.value.simple_results.none
                 /\ Len(stored) <= 5
                 /\ Len(cvOut.value.simple_results.items) = Len(stored)
                 /\ \A i \in 1..Len(stored) :
                        /\ cvOut.value.simple_results.items[i].title = StoredTitle(stored[i])
                        /\ cvOut.value.simple_results.items[i].raw_link = StoredLink(stored[i])

\* C30: a WikiQuery built from a link has the first label of the host as its
\* language when the host has exactly three labels and the caller's language
\* otherwise; one built from anything else has the caller's language.
C30_LangFromThreeLabelHost ==
    (wqOut.done /\ wqOut.value.exc = "none") =>
        wqOut.value.lang =
            IF wqOut.value.is_link = "True" /\ Len(HostLabels(wqIn.raw_query)) = 3
            THEN HostLabels(wqIn.raw_query)[1]
            ELSE wqIn.lang

C30_Witness ==
    /\ wqOut.done
    /\ wqOut.value.exc = "none"
    /\ wqOut.value.is_link = "True"
    /\ Len(HostLabels(wqIn.raw_query)) = 3
    /\ wqIn.lang = <<"zz">>
    /\ wqOut.value.lang = <<"en">>

\* C21: a connection failure of a request never leaves the call: the call
\* goes on with the next scraper or returns None.  A call issues at most
\* one request of the fast scraper and at most three of the API scraper.
C21_TransportFailureFallsBack ==
    \A p \in Tasks :
        /\ call[p].ret.exc # "ClientError"
        /\ call[p].http <= (IF FastAttempted(call[p]) THEN 1 ELSE 0)
                           + (IF ApiEntered(call[p]) THEN 3 ELSE 0)

\* C24: when the API scraper fails, the page request of the first
\* candidate included, the web searcher ends with no result; a result the
\* API scraper returns carries the summary parsed from the page fetched for
\* the first candidate, never an empty one.
C24_NoResultWithoutSummary ==
    \A p \in Tasks :
        /\ call[p].api = "failed" =>
              /\ call[p].web \in {"returned", "raised"}
              /\ call[p].result.none
        /\ call[p].api = "ok" =>
              /\ ~call[p].result.none
              /\ call[p].result.value.summary.of = call[p].result.value.key
              /\ call[p].result.value.summary.len >= wiki_summary_len_threshold

C24_Witness ==
    \E p \in Tasks :
        /\ call[p].pc = "done"
        /\ call[p].fast = "none"
        /\ call[p].api = "failed"
        /\ call[p].http = 3
        /\ call[p].web = "returned"
        /\ call[p].ret.kind = "returned"
        /\ call[p].result.none

\* C25: a finished search whose WikiQuery was built ran the web searcher
\* once unless its cache lookup returned a page, and did not run it when
\* the lookup returned one.
C25_WebSearchUnlessCacheHit ==
    \A p \in Tasks :
        (call[p].pc = "done" /\ call[p].wq.exc = "none")
        => /\ call[p].lookup = "hit" =>
                 (call[p].web = "none" /\ call[p].sess_opened = 0)
           /\ call[p].lookup # "hit" =>
                 (call[p].web # "none" /\ call[p].sess_opened = 1)

\* C27: the cache lookup of a link returns a page stored under the text
\* after the last "/" of the link and the language of the link (the first
\* label of a three-label host, else the caller's); the lookup of any
\* other query returns a page that a query row for the query text and the
\* language points to.  When there is no such page the lookup raises
\* nothing and the call goes on to the web searcher.
RECURSIVE TrailingSegment(_)
TrailingSegment(link) ==
    IF Find(link, <<"/">>) = 0 THEN link
    ELSE TrailingSegment(SubSeq(link, Find(link, <<"/">>) + 1, Len(link)))
C28_DropOnlyBeforeFirstUse ==
    [][ \A p \in Tasks :
          (call[p].pc = "setup_drop" /\ call'[p].pc # "setup_drop")
          => (~db_configured /\ pages = {} /\ queries = {}) ]_vars

\* C29: no step of __save_result changes or removes a stored page row, and
\* a __save_result whose select finds a page row for the result's key and
\* language adds no page row and goes on with the id of a row it found.
SavePcs == {"save_select_page", "save_add_page", "save_select_query", "save_add_query"}
C29_StoredPageNeverMutated ==
    [][ \A p \in Tasks :
          (call[p].pc \in SavePcs /\ call'[p] # call[p])
          => LET found == { r \in pages : /\ r.key = call[p].result.value.key
                                          /\ r.lang = call[p].result.value.lang }
             IN  /\ pages \subseteq pages'
                 /\ ( /\ call[p].pc = "save_select_page"
                      /\ found # {}
                      /\ call'[p].save # "raised" )
                    => /\ pages' = pages
                       /\ call'[p].pc # "save_add_page"
                       /\ call'[p].page_id \in { r.id : r \in found } ]_vars

C29_Witness ==
    \E p \in Tasks :
        /\ call[p].pc = "done"
        /\ call[p].save = "returned"
        /\ \E r \in pages :
              /\ r.id = call[p].page_id
              /\ r.key = call[p].result.value.key
              /\ r.lang = call[p].result.value.lang
              /\ r.summary # call[p].result.value.summary
        /\ Cardinality({ r \in pages : /\ r.key = call[p].result.value.key
                                        /\ r.lang = call[p].result.value.lang }) = 1

\* C31: a search made in fast mode that returns a result returns one whose
\* simple_results is None, whether the result comes from the cache, from
\* the fast scraper or from the API scraper.
C31_FastModeNoRelatedResults ==
    \A p \in Tasks :
        ( /\ call[p].pc = "done"
          /\ call[p].ret.kind = "returned"
          /\ ~call[p].result.none
          /\ call[p].given.mode = "fast" )
        => call[p].result.value.simple_results.none

\* C32: a cache lookup for the query text and language of the latest
\* write-back that ran to its end, made while the rows of that write-back
\* are stored, returns the page of that write-back.
C32_WriteBackThenLookupHits ==
    [][ \A p \in Tasks :
          ( /\ call[p].pc = "db_select"
            /\ call'[p].pc # "db_select"
            /\ call'[p].lookup # "error"
            /\ call[p].wq.is_link # "True"
            /\ last_save.valid
            /\ last_save.text = call[p].wq.query
            /\ last_save.lang = call[p].wq.lang
            /\ \E r \in pages, q \in queries :
                  /\ r.key = last_save.key /\ r.lang = last_save.lang
                  /\ q.query = last_save.query /\ q.lang = last_save.lang
                  /\ q.page_id = r.id )
          => /\ call'[p].lookup = "hit"
             /\ call'[p].result.value.key = last_save.key
             /\ call'[p].result.value.lang = last_save.lang ]_vars

\* C33: no step of a cache lookup, the first-use setup it runs included,
\* changes the stored pages and queries; a lookup that returns a page ends
\* the call with no write-back; and save_result is entered only by a call
\* whose lookup returned no page and whose web searcher returned a result.
LookupPcs == {"setup_drop", "setup_create", "db_select"}
C33_CacheHitLeavesStore ==
    /\ [] \A p \in Tasks :
            /\ call[p].lookup = "hit" =>
                  (call[p].pc = "done" /\ call[p].save = "none" /\ call[p].web = "none")
            /\ call[p].op = "save" =>
                  /\ call[p].lookup # "hit"
                  /\ call[p].web = "returned"
                  /\ ~call[p].result.none
    /\ [][ \A p \in Tasks :
              ( /\ call[p].op = "search"
                /\ call[p].pc \in LookupPcs
                /\ call'[p] # call[p] )
              => (pages' = pages /\ queries' = queries) ]_vars

====
